---- MODULE Spec2Model ----
(***************************************************************************)
(* Model of examples/rest_api_examples.py: the HTCondorAPI client class    *)
(* and the main() entry point that runs the eight examples.                *)
(*                                                                         *)
(* Python str values are sequences of one-character strings, so that the   *)
(* f-string interpolation of the URLs and rstrip('/') are computed.        *)
(* Optional[str] is a record [some, val]; a dict is a function from its    *)
(* keys to its values.                                                     *)
(***************************************************************************)
EXTENDS Integers, Sequences, FiniteSets, TLC

\* ------------------------------------------------------------------ bounds

\* Longest job id, ad type, ad name, reason and constraint drawn.
MaxLen == 1

\* Most trailing slashes of a base URL given to the constructor.
MaxSlashes == 2

\* Number of operations a caller of the class invokes in one behaviour.
MaxCalls == 2

\* ----------------------------------------------------------------- strings

StrUpTo(alphabet, n) == UNION {[1..k -> alphabet] : k \in 0..n}

\* Path segments (job id, ad type, ad name): '/' is the character a client
\* that escaped or validated them would change.
Segments == StrUpTo({"/"}, MaxLen)

\* Reasons and constraints, the empty string among them.
Texts == StrUpTo({"x"}, MaxLen)

Slashes(k) == [i \in 1..k |-> "/"]

\* Base URLs: nothing or a host with a path, then zero or more slashes.
UrlStrings == {host \o Slashes(k) : host \in {<<>>, <<"h", "/", "h">>}, k \in 0..MaxSlashes}

None == [some |-> FALSE, val |-> <<>>]

Some(s) == [some |-> TRUE, val |-> s]

OptTexts == {None} \cup {Some(s) : s \in Texts}

\* Tokens: none, the empty string, a credential.
OptTokens == {None, Some(<<>>), Some(<<"t">>)}

\* Python truth value of an Optional[str]: None and '' are both false.
Truthy(opt) == opt.some /\ opt.val # <<>>

EmptyDict == [k \in {} |-> <<>>]

\* ------------------------------------------------------- string literals

Slash == "/"

BearerPrefix == <<"B", "e", "a", "r", "e", "r", " ">>

JobsPrefix == <<"/", "a", "p", "i", "/", "v", "1", "/", "j", "o", "b", "s", "/">>

HoldSuffix == <<"/", "h", "o", "l", "d">>

ReleaseSuffix == <<"/", "r", "e", "l", "e", "a", "s", "e">>

BulkHoldPath == <<"/", "a", "p", "i", "/", "v", "1", "/", "j", "o", "b", "s", "/", "h", "o", "l", "d">>

BulkReleasePath == <<"/", "a", "p", "i", "/", "v", "1", "/", "j", "o", "b", "s", "/", "r", "e", "l", "e", "a", "s", "e">>

AdsPath == <<"/", "a", "p", "i", "/", "v", "1", "/", "c", "o", "l", "l", "e", "c", "t", "o", "r", "/", "a", "d", "s">>

AdsPrefix == <<"/", "a", "p", "i", "/", "v", "1", "/", "c", "o", "l", "l", "e", "c", "t", "o", "r", "/", "a", "d", "s", "/">>

\* ------------------------------------------------------------------ state

VARIABLES
    pc,           \* "caller" for a user of the class; main()'s position otherwise
    args,         \* main(): the parsed command line [url, token, job_id]
    printed,      \* main(): what the last step printed
    constructed,  \* whether HTCondorAPI.__init__ has run
    given,        \* the arguments __init__ was called with [base_url, token]
    base_url,     \* self.base_url
    token,        \* self.token
    headers,      \* self.session.headers
    call,         \* the operation last invoked and its arguments
    request,      \* the request last handed to the session
    response,     \* the server's answer to it (or the connection failure)
    result,       \* what the operation gave its caller: a value or an exception
    ncalls,       \* operations invoked so far
    nreq          \* requests handed to the session so far

vars == <<pc, args, printed, constructed, given, base_url, token, headers,
          call, request, response, result, ncalls, nreq>>

client == <<constructed, given, base_url, token, headers>>

\* ------------------------------------------------------------- responses

AdsLists == {<<>>, <<"a", "b">>, <<"b", "a">>}

Absent == [kind |-> "absent", items |-> <<>>]

Null == [kind |-> "null", items |-> <<>>]

List(items) == [kind |-> "list", items |-> items]

\* Decoded JSON documents a server may answer with.
Payloads ==
    {[kind |-> "object", ads |-> List(l)] : l \in AdsLists}
    \cup {[kind |-> "object", ads |-> Absent],
          [kind |-> "object", ads |-> Null],
          [kind |-> "array", ads |-> Absent]}

FailureStatuses == {400, 500}

NoPayload == [kind |-> "none", ads |-> Absent]

ConnectionFailure ==
    [connected |-> FALSE, status |-> 0, json |-> "none", body |-> NoPayload]

\* response.json() on a body that is not JSON raises
\* requests.exceptions.JSONDecodeError (a RequestException) from requests 2.27
\* on, and a plain ValueError before; the script pins no version.
DecodeErrors == {"JSONDecodeError", "ValueError"}

Answer(status, decoded, body) ==
    [connected |-> TRUE, status |-> status, json |-> decoded, body |-> body]

\* The answers a caller of the class is given: a connection failure, the two
\* orders of an `ads` list, a body that is not JSON, and the failure statuses.
ClientResponses ==
    {ConnectionFailure,
     Answer(200, "ok", [kind |-> "object", ads |-> List(<<"a", "b">>)]),
     Answer(200, "ok", [kind |-> "object", ads |-> List(<<"b", "a">>)]),
     Answer(200, "JSONDecodeError", NoPayload)}
    \cup {Answer(s, "ok", [kind |-> "object", ads |-> Absent]) : s \in FailureStatuses}

\* The answers main() is given: those, and every shape of document.
Responses ==
    ClientResponses
    \cup {Answer(200, "ok", p) : p \in Payloads}
    \cup {Answer(200, e, NoPayload) : e \in DecodeErrors}

\* ------------------------------------------------------------ HTCondorAPI

\* Mutant of rstrip: drops one trailing '/' only.
rstrip_one(s) ==
    IF s # <<>> /\ s[Len(s)] = Slash
    THEN SubSeq(s, 1, Len(s) - 1)
    ELSE s

\* str.rstrip('/'): drops every trailing '/'.
RECURSIVE rstrip(_)
rstrip(s) ==
    IF s # <<>> /\ s[Len(s)] = Slash
    THEN rstrip(SubSeq(s, 1, Len(s) - 1))
    ELSE s

\* HTCondorAPI.__init__
HTCondorAPI_init(url, tok) ==
    /\ base_url' = rstrip(url)
    /\ token' = tok
    /\ headers' = IF Truthy(tok)
                  THEN ("Authorization" :> (BearerPrefix \o tok.val))
                  ELSE EmptyDict
    /\ given' = [base_url |-> url, token |-> tok]
    /\ constructed' = TRUE

\* self.session.post(url, json=data): the request the session is asked to send.
session_post(url, data) ==
    [method |-> "POST", url |-> url, headers |-> headers,
     has_json |-> TRUE, json |-> data, params |-> EmptyDict]

\* Mutant of session_get: requests.get, which knows nothing of the session's headers.
session_get_bare(url, params) ==
    [method |-> "GET", url |-> url, headers |-> EmptyDict,
     has_json |-> FALSE, json |-> EmptyDict, params |-> params]

\* self.session.get(url, params=params)
session_get(url, params) ==
    [method |-> "GET", url |-> url, headers |-> headers,
     has_json |-> FALSE, json |-> EmptyDict, params |-> params]

\* Mutant of raise_for_status: server errors only.
raise_for_status_5xx(resp) == 500 <= resp.status /\ resp.status < 600

\* response.raise_for_status(): raises HTTPError for a 4xx or 5xx status.
raise_for_status(resp) == 400 <= resp.status /\ resp.status < 600

Raised(exc, status) == [kind |-> exc, status |-> status, value |-> NoPayload]

Returned(value) == [kind |-> "return", status |-> 0, value |-> value]

\* Mutant of outcome: the ads of a returned document come back sorted by name.
outcome_sorted(resp) ==
    IF ~resp.connected THEN Raised("ConnectionError", 0)
    ELSE IF raise_for_status(resp) THEN Raised("HTTPError", resp.status)
    ELSE IF resp.json # "ok" THEN Raised(resp.json, 0)
    ELSE IF resp.body.ads.items = <<"b", "a">>
         THEN Returned([resp.body EXCEPT !.ads.items = <<"a", "b">>])
         ELSE Returned(resp.body)

\* What the three closing lines of every operation give the caller:
\*   response = self.session.<method>(...)   raises ConnectionError
\*   response.raise_for_status()              raises HTTPError
\*   return response.json()                   raises JSONDecodeError
outcome(resp) ==
    IF ~resp.connected THEN Raised("ConnectionError", 0)
    ELSE IF raise_for_status(resp) THEN Raised("HTTPError", resp.status)
    ELSE IF resp.json # "ok" THEN Raised(resp.json, 0)
    ELSE Returned(resp.body)

\* Mutant of exchange: a failed request is sent a second time.
exchange_retry(req, resp) ==
    /\ request' = req
    /\ response' = resp
    /\ nreq' = IF outcome(resp).kind = "return" THEN nreq + 1 ELSE nreq + 2
    /\ result' = outcome(resp)

\* One exchange: the request is sent once and its outcome reaches the caller.
exchange(req, resp) ==
    /\ request' = req
    /\ response' = resp
    /\ nreq' = nreq + 1
    /\ result' = outcome(resp)

Invocation(op, job_id, ad_type, name, constraint, reason) ==
    [op |-> op, job_id |-> job_id, ad_type |-> ad_type, name |-> name,
     constraint |-> constraint, reason |-> reason]

\* Mutant of hold_job: posts to the release endpoint.
hold_job_to_release(job_id, reason, resp) ==
    LET url == base_url \o JobsPrefix \o job_id \o ReleaseSuffix
        data == IF Truthy(reason) THEN ("reason" :> reason.val) ELSE EmptyDict
    IN  /\ call' = Invocation("hold_job", job_id, <<>>, <<>>, None, reason)
        /\ ncalls' = ncalls + 1
        /\ exchange(session_post(url, data), resp)
        /\ UNCHANGED client

hold_job(job_id, reason, resp) ==
    LET url == base_url \o JobsPrefix \o job_id \o HoldSuffix
        data == IF Truthy(reason) THEN ("reason" :> reason.val) ELSE EmptyDict
    IN  /\ call' = Invocation("hold_job", job_id, <<>>, <<>>, None, reason)
        /\ ncalls' = ncalls + 1
        /\ exchange(session_post(url, data), resp)
        /\ UNCHANGED client

\* Mutant of release_job: keeps the URL it built as the client's base URL.
release_job_keeps_url(job_id, reason, resp) ==
    LET url == base_url \o JobsPrefix \o job_id \o ReleaseSuffix
        data == IF Truthy(reason) THEN ("reason" :> reason.val) ELSE EmptyDict
    IN  /\ call' = Invocation("release_job", job_id, <<>>, <<>>, None, reason)
        /\ ncalls' = ncalls + 1
        /\ exchange(session_post(url, data), resp)
        /\ base_url' = url
        /\ UNCHANGED <<constructed, given, token, headers>>

release_job(job_id, reason, resp) ==
    LET url == base_url \o JobsPrefix \o job_id \o ReleaseSuffix
        data == IF Truthy(reason) THEN ("reason" :> reason.val) ELSE EmptyDict
    IN  /\ call' = Invocation("release_job", job_id, <<>>, <<>>, None, reason)
        /\ ncalls' = ncalls + 1
        /\ exchange(session_post(url, data), resp)
        /\ UNCHANGED client

bulk_hold_jobs(constraint, reason, resp) ==
    LET url == base_url \o BulkHoldPath
        data == IF Truthy(reason)
                THEN ("constraint" :> constraint) @@ ("reason" :> reason.val)
                ELSE ("constraint" :> constraint)
    IN  /\ call' = Invocation("bulk_hold_jobs", <<>>, <<>>, <<>>, Some(constraint), reason)
        /\ ncalls' = ncalls + 1
        /\ exchange(session_post(url, data), resp)
        /\ UNCHANGED client

\* Mutant of bulk_release_jobs: `if reason is not None`.
bulk_release_jobs_not_none(constraint, reason, resp) ==
    LET url == base_url \o BulkReleasePath
        data == IF reason.some
                THEN ("constraint" :> constraint) @@ ("reason" :> reason.val)
                ELSE ("constraint" :> constraint)
    IN  /\ call' = Invocation("bulk_release_jobs", <<>>, <<>>, <<>>, Some(constraint), reason)
        /\ ncalls' = ncalls + 1
        /\ exchange(session_post(url, data), resp)
        /\ UNCHANGED client

bulk_release_jobs(constraint, reason, resp) ==
    LET url == base_url \o BulkReleasePath
        data == IF Truthy(reason)
                THEN ("constraint" :> constraint) @@ ("reason" :> reason.val)
                ELSE ("constraint" :> constraint)
    IN  /\ call' = Invocation("bulk_release_jobs", <<>>, <<>>, <<>>, Some(constraint), reason)
        /\ ncalls' = ncalls + 1
        /\ exchange(session_post(url, data), resp)
        /\ UNCHANGED client

\* Mutant of query_collector_ads: the constraint parameter is always sent.
query_collector_ads_always(constraint, resp) ==
    LET url == base_url \o AdsPath
        params == ("constraint" :> constraint.val)
    IN  /\ call' = Invocation("query_collector_ads", <<>>, <<>>, <<>>, constraint, None)
        /\ ncalls' = ncalls + 1
        /\ exchange(session_get(url, params), resp)
        /\ UNCHANGED client

query_collector_ads(constraint, resp) ==
    LET url == base_url \o AdsPath
        params == IF Truthy(constraint)
                  THEN ("constraint" :> constraint.val)
                  ELSE EmptyDict
    IN  /\ call' = Invocation("query_collector_ads", <<>>, <<>>, <<>>, constraint, None)
        /\ ncalls' = ncalls + 1
        /\ exchange(session_get(url, params), resp)
        /\ UNCHANGED client

query_collector_ads_by_type(ad_type, constraint, resp) ==
    LET url == base_url \o AdsPrefix \o ad_type
        params == IF Truthy(constraint)
                  THEN ("constraint" :> constraint.val)
                  ELSE EmptyDict
    IN  /\ call' = Invocation("query_collector_ads_by_type", <<>>, ad_type, <<>>, constraint, None)
        /\ ncalls' = ncalls + 1
        /\ exchange(session_get(url, params), resp)
        /\ UNCHANGED client

\* session.get(url) with no params argument: no query parameters.
get_collector_ad(ad_type, name, resp) ==
    LET url == base_url \o AdsPrefix \o ad_type \o <<Slash>> \o name
    IN  /\ call' = Invocation("get_collector_ad", <<>>, ad_type, name, None, None)
        /\ ncalls' = ncalls + 1
        /\ exchange(session_get(url, EmptyDict), resp)
        /\ UNCHANGED client

\* --------------------------------------------------- a caller of the class

NoCall == Invocation("none", <<>>, <<>>, <<>>, None, None)

NoRequest ==
    [method |-> "none", url |-> <<>>, headers |-> EmptyDict,
     has_json |-> FALSE, json |-> EmptyDict, params |-> EmptyDict]

NoResponse == [connected |-> FALSE, status |-> 0, json |-> "none", body |-> NoPayload]

NoResult == [kind |-> "none", status |-> 0, value |-> NoPayload]

InitCommon ==
    /\ args = [url |-> <<>>, token |-> None, job_id |-> <<>>]
    /\ printed = "nothing"
    /\ constructed = FALSE
    /\ given = [base_url |-> <<>>, token |-> None]
    /\ base_url = <<>>
    /\ token = None
    /\ headers = EmptyDict
    /\ call = NoCall
    /\ request = NoRequest
    /\ response = NoResponse
    /\ result = NoResult
    /\ ncalls = 0
    /\ nreq = 0

Init == pc = "caller" /\ InitCommon

main_vars == <<pc, args, printed>>

calls == <<call, request, response, result, ncalls, nreq>>

Construct ==
    /\ ~constructed
    /\ \E url \in UrlStrings, tok \in OptTokens : HTCondorAPI_init(url, tok)
    /\ UNCHANGED <<main_vars, calls>>

CanCall == constructed /\ ncalls < MaxCalls

Call_hold_job ==
    /\ CanCall
    /\ \E job_id \in Segments, reason \in OptTexts, resp \in ClientResponses :
          hold_job(job_id, reason, resp)
    /\ UNCHANGED main_vars

Call_release_job ==
    /\ CanCall
    /\ \E job_id \in Segments, reason \in OptTexts, resp \in ClientResponses :
          release_job(job_id, reason, resp)
    /\ UNCHANGED main_vars

Call_bulk_hold_jobs ==
    /\ CanCall
    /\ \E constraint \in Texts, reason \in OptTexts, resp \in ClientResponses :
          bulk_hold_jobs(constraint, reason, resp)
    /\ UNCHANGED main_vars

Call_bulk_release_jobs ==
    /\ CanCall
    /\ \E constraint \in Texts, reason \in OptTexts, resp \in ClientResponses :
          bulk_release_jobs(constraint, reason, resp)
    /\ UNCHANGED main_vars

Call_query_collector_ads ==
    /\ CanCall
    /\ \E constraint \in OptTexts, resp \in ClientResponses :
          query_collector_ads(constraint, resp)
    /\ UNCHANGED main_vars

Call_query_collector_ads_by_type ==
    /\ CanCall
    /\ \E ad_type \in Segments, constraint \in OptTexts, resp \in ClientResponses :
          query_collector_ads_by_type(ad_type, constraint, resp)
    /\ UNCHANGED main_vars

Call_get_collector_ad ==
    /\ CanCall
    /\ \E ad_type \in Segments, name \in Segments, resp \in ClientResponses :
          get_collector_ad(ad_type, name, resp)
    /\ UNCHANGED main_vars

Next ==
    \/ Construct
    \/ Call_hold_job
    \/ Call_release_job
    \/ Call_bulk_hold_jobs
    \/ Call_bulk_release_jobs
    \/ Call_query_collector_ads
    \/ Call_query_collector_ads_by_type
    \/ Call_get_collector_ad

Spec == Init /\ [][Next]_vars

\* ------------------------------------------------------------------ main()

DefaultUrl == <<"h", "t", "t", "p", ":", "/", "/", "l", "o", "c", "a", "l", "h", "o", "s", "t", ":", "8", "0", "8", "0">>

DefaultJobId == <<"1", "2", "3", ".", "0">>

HoldingForMaintenance == <<"H", "o", "l", "d", "i", "n", "g", " ", "f", "o", "r", " ", "m", "a", "i", "n", "t", "e", "n", "a", "n", "c", "e">>

MaintenanceComplete == <<"M", "a", "i", "n", "t", "e", "n", "a", "n", "c", "e", " ", "c", "o", "m", "p", "l", "e", "t", "e">>

OwnerIsAlice == <<"O", "w", "n", "e", "r", " ", "=", "=", " ", "\"", "a", "l", "i", "c", "e", "\"">>

BulkMaintenance == <<"B", "u", "l", "k", " ", "m", "a", "i", "n", "t", "e", "n", "a", "n", "c", "e">>

JobStatusIs5 == <<"J", "o", "b", "S", "t", "a", "t", "u", "s", " ", "=", "=", " ", "5">>

Schedd == <<"s", "c", "h", "e", "d", "d">>

Startd == <<"s", "t", "a", "r", "t", "d">>

CpusOver8 == <<"C", "p", "u", "s", " ", ">", " ", "8">>

ScheddAtHost == <<"s", "c", "h", "e", "d", "d", "@", "h", "o", "s", "t", ".", "e", "x", "a", "m", "p", "l", "e", ".", "c", "o", "m">>

\* The exceptions `except requests.exceptions.RequestException` catches.
RequestException == {"ConnectionError", "HTTPError", "JSONDecodeError"}

\* result.get('ads', ...): only a dict has .get (AttributeError otherwise).
get_ads_raises(value) == value.kind # "object"

\* len(result.get('ads', [])): the default applies to a missing key only, so
\* a null `ads` reaches len() as None (TypeError).
len_ads_raises(value) == get_ads_raises(value) \/ value.ads.kind = "null"

\* Mutant of try_except: `except requests.exceptions.HTTPError`.
try_except_http_only(r, body_raises, shown, next) ==
    LET caught == r.kind = "HTTPError"
        uncaught == ~caught /\ (r.kind # "return" \/ body_raises)
    IN  /\ printed' = IF caught THEN "Error" ELSE IF uncaught THEN "Traceback" ELSE shown
        /\ pc' = IF uncaught THEN "crashed" ELSE next
        /\ UNCHANGED args

\* One try/except block of main(), after the client call has given `r`:
\* a RequestException is printed as "Error: ..."; a returned value is shown by
\* the try body, which raises when `body_raises`; any other exception leaves
\* main() with a traceback.
try_except(r, body_raises, shown, next) ==
    LET caught == r.kind \in RequestException
        uncaught == ~caught /\ (r.kind # "return" \/ body_raises)
    IN  /\ printed' = IF caught THEN "Error" ELSE IF uncaught THEN "Traceback" ELSE shown
        /\ pc' = IF uncaught THEN "crashed" ELSE next
        /\ UNCHANGED args

\* Lines 99-112: parse the command line, build the client, print the banner.
main_start ==
    /\ pc = "start"
    /\ \E url \in UrlStrings \cup {DefaultUrl}, tok \in OptTokens,
          job_id \in Segments \cup {DefaultJobId} :
          /\ args' = [url |-> url, token |-> tok, job_id |-> job_id]
          /\ HTCondorAPI_init(url, tok)
    /\ printed' = "banner"
    /\ pc' = "ex1"
    /\ UNCHANGED calls

Example1 ==
    /\ pc = "ex1"
    /\ \E resp \in Responses : hold_job(args.job_id, Some(HoldingForMaintenance), resp)
    /\ try_except(result', FALSE, "json", "ex2")

Example2 ==
    /\ pc = "ex2"
    /\ \E resp \in Responses : release_job(args.job_id, Some(MaintenanceComplete), resp)
    /\ try_except(result', FALSE, "json", "ex3")

Example3 ==
    /\ pc = "ex3"
    /\ \E resp \in Responses : bulk_hold_jobs(OwnerIsAlice, Some(BulkMaintenance), resp)
    /\ try_except(result', FALSE, "json", "ex4")

Example4 ==
    /\ pc = "ex4"
    /\ \E resp \in Responses : bulk_release_jobs(JobStatusIs5, None, resp)
    /\ try_except(result', FALSE, "json", "ex5")

\* Lines 156-160: the count, then the first ad when the list is not empty.
Example5 ==
    /\ pc = "ex5"
    /\ \E resp \in Responses : query_collector_ads(None, resp)
    /\ try_except(result', len_ads_raises(result'.value),
                  IF result'.value.ads.items # <<>> THEN "found, first ad" ELSE "found",
                  "ex6")

Example6 ==
    /\ pc = "ex6"
    /\ \E resp \in Responses : query_collector_ads_by_type(Schedd, None, resp)
    /\ try_except(result', len_ads_raises(result'.value), "found", "ex7")

Example7 ==
    /\ pc = "ex7"
    /\ \E resp \in Responses : query_collector_ads_by_type(Startd, Some(CpusOver8), resp)
    /\ try_except(result', len_ads_raises(result'.value), "found", "ex8")

Example8 ==
    /\ pc = "ex8"
    /\ \E resp \in Responses : get_collector_ad(Schedd, ScheddAtHost, resp)
    /\ try_except(result', FALSE, "json", "footer")

\* Lines 195-197.
main_end ==
    /\ pc = "footer"
    /\ printed' = "Examples complete"
    /\ pc' = "done"
    /\ UNCHANGED <<args, client, calls>>

MainInit == pc = "start" /\ InitCommon

MainNext ==
    \/ main_start
    \/ Example1
    \/ Example2
    \/ Example3
    \/ Example4
    \/ Example5
    \/ Example6
    \/ Example7
    \/ Example8
    \/ main_end

MainSpec == MainInit /\ [][MainNext]_vars

\* ------------------------------------------------- the REST API's endpoints

\* The endpoint table of the server (method and path per operation), written
\* from its path components.
T_ApiV1 == <<"/", "a", "p", "i", "/", "v", "1">>

T_Jobs == <<"/", "j", "o", "b", "s">>

T_CollectorAds == <<"/", "c", "o", "l", "l", "e", "c", "t", "o", "r", "/", "a", "d", "s">>

T_Hold == <<"/", "h", "o", "l", "d">>

T_Release == <<"/", "r", "e", "l", "e", "a", "s", "e">>

SingleOps == {"hold_job", "release_job"}

BulkOps == {"bulk_hold_jobs", "bulk_release_jobs"}

PostOps == SingleOps \cup BulkOps

QueryOps == {"query_collector_ads", "query_collector_ads_by_type"}

TableMethod(op) == IF op \in PostOps THEN "POST" ELSE "GET"

TablePath(c) ==
    CASE c.op = "hold_job" -> T_ApiV1 \o T_Jobs \o <<"/">> \o c.job_id \o T_Hold
      [] c.op = "release_job" -> T_ApiV1 \o T_Jobs \o <<"/">> \o c.job_id \o T_Release
      [] c.op = "bulk_hold_jobs" -> T_ApiV1 \o T_Jobs \o T_Hold
      [] c.op = "bulk_release_jobs" -> T_ApiV1 \o T_Jobs \o T_Release
      [] c.op = "query_collector_ads" -> T_ApiV1 \o T_CollectorAds
      [] c.op = "query_collector_ads_by_type" ->
            T_ApiV1 \o T_CollectorAds \o <<"/">> \o c.ad_type
      [] c.op = "get_collector_ad" ->
            T_ApiV1 \o T_CollectorAds \o <<"/">> \o c.ad_type \o <<"/">> \o c.name

\* An operation has been invoked.
Called == call.op # "none"

Has(dict, key) == key \in DOMAIN dict

\* ------------------------------------------------------------------ claims

\* C1: every operation issues the method and path of the endpoint table, the
\* path segments id, type and name inserted verbatim after the base URL, and
\* get_ad carries no body and no query parameters.
C1_EndpointTable ==
    Called =>
        /\ request.method = TableMethod(call.op)
        /\ request.url = base_url \o TablePath(call)
        /\ call.op = "get_collector_ad" =>
              ~request.has_json /\ request.params = EmptyDict

\* C1 witness: get_ad was called with an empty ad type and '/' as the ad name,
\* and the URL ends with both segments as given.
C1_Witness ==
    /\ call.op = "get_collector_ad"
    /\ call.ad_type = <<>>
    /\ call.name = <<"/">>
    /\ request.method = "GET"
    /\ request.url = base_url \o T_ApiV1 \o T_CollectorAds \o <<"/", "/", "/">>

\* C2: every invocation of an operation issues exactly one request, whatever
\* the outcome: a step that invokes an operation or sends a request does both
\* exactly once.
C2_OneRequestPerCall ==
    [][(ncalls' # ncalls \/ nreq' # nreq) =>
          (ncalls' = ncalls + 1 /\ nreq' = nreq + 1)]_vars

\* C2 witness: two operations were invoked, the last one failed in transport,
\* and two requests were sent.
C2_Witness ==
    ncalls = 2 /\ nreq = 2 /\ result.kind = "ConnectionError"

\* C3: a status >= 400 fails the operation with an HTTPError carrying that
\* status, a connection failure fails it with a ConnectionError, and a value is
\* returned only when the exchange happened and the status is below 400.
C3_FailuresReachCaller ==
    Called =>
        /\ (response.connected /\ response.status >= 400) =>
              (result.kind = "HTTPError" /\ result.status = response.status)
        /\ ~response.connected => result.kind = "ConnectionError"
        /\ result.kind = "return" => (response.connected /\ response.status < 400)
        /\ result.kind # "none"

\* C3 witness: the server answered 400 and the caller got the HTTPError with 400.
C3_Witness ==
    /\ Called
    /\ response.status = 400
    /\ result.kind = "HTTPError"
    /\ result.status = 400

\* The JSON body the four POST operations send, given when `reason` counts as
\* supplied.
PostBodyIs(supplied) ==
    (Called /\ call.op \in PostOps) =>
        /\ request.has_json
        /\ Has(request.json, "reason") <=> supplied
        /\ Has(request.json, "reason") =>
              (request.json["reason"] = call.reason.val /\ request.json["reason"] # <<>>)
        /\ call.op \in SingleOps => DOMAIN request.json \subseteq {"reason"}
        /\ call.op \in BulkOps =>
              /\ DOMAIN request.json \subseteq {"constraint", "reason"}
              /\ Has(request.json, "constraint")
              /\ request.json["constraint"] = call.constraint.val

\* C4 as stated: the body has the key `reason` if and only if the caller
\* supplied a reason (passed anything but None), with the supplied value, and
\* never as an empty string.
C4_Original == PostBodyIs(call.reason.some)

\* C4 amended: the body has the key `reason` if and only if the caller supplied
\* a non-empty reason, with the supplied value; a reason given as the empty
\* string is omitted like a missing one. hold_job/release_job send nothing
\* else, the bulk operations send the constraint verbatim.
C4_ReasonIffNonEmpty == PostBodyIs(call.reason.some /\ call.reason.val # <<>>)

\* C4 witness: bulk_hold_jobs was called with a reason and sent both keys.
C4_Witness ==
    /\ call.op = "bulk_hold_jobs"
    /\ call.reason = Some(<<"x">>)
    /\ request.json = ("constraint" :> call.constraint.val) @@ ("reason" :> <<"x">>)

\* The query parameters of the two query operations, given when `constraint`
\* counts as supplied.
QueryParamsAre(supplied) ==
    (Called /\ call.op \in QueryOps) =>
        /\ DOMAIN request.params \subseteq {"constraint"}
        /\ Has(request.params, "constraint") <=> supplied
        /\ Has(request.params, "constraint") =>
              request.params["constraint"] = call.constraint.val

\* C5 as stated: the request has a `constraint` query parameter if and only if
\* the caller supplied a constraint (passed anything but None).
C5_Original == QueryParamsAre(call.constraint.some)

\* C5 amended: the request has a `constraint` query parameter if and only if
\* the caller supplied a non-empty constraint, and then its value is the
\* supplied string verbatim; otherwise the request has no query parameters.
C5_ConstraintIffNonEmpty ==
    QueryParamsAre(call.constraint.some /\ call.constraint.val # <<>>)

\* C5 witness: query_ads_by_type was called with a constraint and sent it.
C5_Witness ==
    /\ call.op = "query_collector_ads_by_type"
    /\ call.constraint = Some(<<"x">>)
    /\ request.params = ("constraint" :> <<"x">>)

\* The Authorization header of the session and of every request, given when
\* the client counts as constructed with a credential.
AuthorizationIs(configured) ==
    constructed =>
        /\ configured =>
              /\ Has(headers, "Authorization")
              /\ headers["Authorization"] = BearerPrefix \o given.token.val
        /\ ~configured => ~Has(headers, "Authorization")
        /\ Called => request.headers = headers

\* C6 as stated: constructed with a credential (a token other than None),
\* every request carries `Authorization: Bearer <credential>`; constructed
\* without one, no request carries an Authorization header.
C6_Original == AuthorizationIs(given.token.some)

\* C6 amended: constructed with a non-empty credential, every request of every
\* operation carries `Authorization: Bearer <credential>`; constructed without
\* a credential or with the empty string, no request carries the header.
C6_BearerIffNonEmpty == AuthorizationIs(given.token.some /\ given.token.val # <<>>)

\* C6 witness: the second request of a client built with token "t" carries
\* the bearer header.
C6_Witness ==
    /\ ncalls = 2
    /\ given.token = Some(<<"t">>)
    /\ request.headers = ("Authorization" :> (BearerPrefix \o <<"t">>))

\* The request an operation must produce from its arguments and the
\* client's configuration alone.
ExpectedRequest(c, base, hdrs) ==
    [method |-> TableMethod(c.op),
     url |-> base \o TablePath(c),
     headers |-> hdrs,
     has_json |-> c.op \in PostOps,
     json |-> (IF c.op \in BulkOps
               THEN ("constraint" :> c.constraint.val) ELSE EmptyDict)
              @@ (IF c.op \in PostOps /\ Truthy(c.reason)
                  THEN ("reason" :> c.reason.val) ELSE EmptyDict),
     params |-> IF c.op \in QueryOps /\ Truthy(c.constraint)
                THEN ("constraint" :> c.constraint.val) ELSE EmptyDict]

C8_TrailingSlashes ==
    constructed =>
        /\ base_url # <<>> => base_url[Len(base_url)] # "/"
        /\ \E k \in 0..Len(given.base_url) : given.base_url = base_url \o Slashes(k)
        /\ ncalls = 0 => (nreq = 0 /\ request = NoRequest)
        /\ Called =>
              LET n == Len(base_url)
              IN  /\ request.url = base_url \o TablePath(call)
                  /\ SubSeq(request.url, n + 1, n + 4) = <<"/", "a", "p", "i">>
                  /\ n > 0 => request.url[n] # "/"

\* C8 witness: a client built from "h/h//" sent a request to "h/h/api...".
C8_Witness ==
    /\ Called
    /\ given.base_url = <<"h", "/", "h", "/", "/">>
    /\ base_url = <<"h", "/", "h">>
    /\ SubSeq(request.url, 1, 7) = <<"h", "/", "h", "/", "a", "p", "i">>

\* C9: a successful operation returns the server's decoded document as it
\* is: in particular the `ads` list with the same elements, length and order.
C9_PayloadVerbatim ==
    (Called /\ result.kind = "return") =>
        /\ result.value = response.body
        /\ Len(result.value.ads.items) = Len(response.body.ads.items)
        /\ \A i \in 1..Len(response.body.ads.items) :
              result.value.ads.items[i] = response.body.ads.items[i]

\* C9 witness: query_ads returned the two ads in the server's order b, a.
C9_Witness ==
    /\ call.op = "query_collector_ads"
    /\ result.kind = "return"
    /\ response.body.ads = List(<<"b", "a">>)
    /\ result.value.ads.items = <<"b", "a">>

\* The eight examples in the order main() runs them.
ExampleOps ==
    <<"hold_job", "release_job", "bulk_hold_jobs", "bulk_release_jobs",
      "query_collector_ads", "query_collector_ads_by_type",
      "query_collector_ads_by_type", "get_collector_ad">>

ExamplePcs == <<"ex1", "ex2", "ex3", "ex4", "ex5", "ex6", "ex7", "ex8", "footer">>

\* The examples behind main() at a position.
Completed(p) ==
    IF p = "done" THEN 8
    ELSE IF p = "start" THEN 0
    ELSE (CHOOSE i \in 1..9 : ExamplePcs[i] = p) - 1

Running == pc \in {ExamplePcs[i] : i \in 1..9} \cup {"done"}

\* A returned document the printing code of examples 5 to 7 can read: a
\* JSON object whose `ads` is missing or a list.
Readable(value) == value.kind = "object" /\ value.ads.kind \in {"absent", "list"}

====
